---- MODULE Spec2Model ----
(***************************************************************************)
(* A model of ftp_scan: the listing parser (FileNode.new_from_dir_line,    *)
(* FileNode.new_from_mlsd_line), the sqlite catalog (REPLACE INTO with the *)
(* connection's pending transaction), the bounded line stream              *)
(* (FTPScanner._read_lines) and the recursive scanner (scan_dir,           *)
(* recursive_scan_dir, basic_scan).                                        *)
(***************************************************************************)
EXTENDS Integers, Sequences, FiniteSets, TLC

VARIABLES
    remote,     \* which remote tree the server holds
    run,        \* number of the current run of basic_scan
    pc,         \* position of the scanning (main) thread
    flavour,    \* FTPScanner.flavour
    stack,      \* activations of recursive_scan_dir, innermost last
    cur,        \* locals of the scan_dir call in progress
    stream,     \* the listing source of the scan in progress: worker thread and queue q
    db,         \* the catalog as the open sqlite connection sees it
    committed,  \* the catalog as committed to the database file
    hist,       \* history of the run: what happened to each scanned directory
    pin,        \* parser specification: the line handed to the parser
    pout        \* parser specification: the node the parser returned

vars == <<remote, run, pc, flavour, stack, cur, stream, db, committed, hist, pin, pout>>

(***************************************************************************)
(* Optional values: Python's None and a present value.                     *)
(***************************************************************************)
None == <<>>
Some(x) == <<x>>
Val(o) == o[1]

(***************************************************************************)
(* FTPFlavour.  The enum's values are what the scanner compares with; the  *)
(* member names are what the command line's click.Choice hands over.       *)
(***************************************************************************)
Unix == "unix"
MsDos == "ms-dos"
Mlsd == "mlsd"
FTPFlavour == {Unix, MsDos, Mlsd}
FlavourMemberNames == {"Unix", "MsDos", "Mlsd"}

(***************************************************************************)
(* PurePosixPath, as its tuple of parts: <<"/", "a", "b">> is /a/b, a      *)
(* relative path has no leading "/".  The constructor drops "." segments   *)
(* and keeps ".." segments.                                                *)
(***************************************************************************)
Root == <<"/">>
IsAbsolute(p) == Len(p) > 0 /\ p[1] = "/"
NotDot(s) == s # "."
PurePosixPath(parts) == SelectSeq(parts, NotDot)
\* PurePosixPath.__truediv__: an absolute right operand replaces the left one
PathJoin(a, b) == IF IsAbsolute(b) THEN PurePosixPath(b) ELSE a \o PurePosixPath(b)
\* PurePosixPath.relative_to('/'): the parts after the anchor ('..' segments are not walked or
\* collapsed, with or without walk_up, since the path is already below '/')
RelativeToRoot(p) == Tail(p)
HasDotDot(p) == \E i \in 1..Len(p) : p[i] = ".."

\* What the path denotes on the server: '..' collapsed, '/..' being '/'
RECURSIVE Collapse(_, _)
Collapse(done, rest) ==
    IF rest = <<>> THEN done
    ELSE IF Head(rest) = ".."
         THEN Collapse(IF Len(done) > 1 THEN SubSeq(done, 1, Len(done) - 1) ELSE done, Tail(rest))
         ELSE Collapse(Append(done, Head(rest)), Tail(rest))
Canonical(p) == Collapse(Root, Tail(p))

(***************************************************************************)
(* datetime(year, month, day, hour, minute): raises ValueError outside the *)
(* calendar.                                                               *)
(***************************************************************************)
IsLeap(y) == (y % 4 = 0 /\ y % 100 # 0) \/ y % 400 = 0
DaysIn(y, m) ==
    IF m = 2 THEN (IF IsLeap(y) THEN 29 ELSE 28)
    ELSE IF m \in {4, 6, 9, 11} THEN 30 ELSE 31
ValidDate(y, m, d, h, mi) ==
    /\ y >= 1 /\ y <= 9999
    /\ m >= 1 /\ m <= 12
    /\ d >= 1 /\ d <= DaysIn(y, m)
    /\ h >= 0 /\ h <= 23
    /\ mi >= 0 /\ mi <= 59
datetime(y, m, d, h, mi) == [year |-> y, month |-> m, day |-> d, hour |-> h, minute |-> mi]

(***************************************************************************)
(* MsDos date reconstruction (new_from_dir_line, the MsDos branch).        *)
(***************************************************************************)
\* a two-digit year windowed at 50 instead of 70
MsDosYear_pivot50(yy) == IF 50 <= yy /\ yy <= 99 THEN yy + 1900 ELSE yy + 2000
MsDosYear(yy) == IF 70 <= yy /\ yy <= 99 THEN yy + 1900 ELSE yy + 2000
MsDosAddPM(hh, ampm) == IF ampm = "PM" THEN hh + 12 ELSE hh
MsDosWrap(h) == IF h >= 24 THEN h - 24 ELSE h
MsDosHour(hh, ampm) == MsDosWrap(MsDosAddPM(hh, ampm))
\* the try block: any exception of datetime() leaves mod_date = None
MsDosDate(f) ==
    LET y == MsDosYear(f.year)
        h == MsDosHour(f.hour, f.ampm)
    IN  IF ValidDate(y, f.month, f.day, h, f.minute)
        THEN Some(datetime(y, f.month, f.day, h, f.minute))
        ELSE None

(***************************************************************************)
(* Unix date reconstruction: the year is on the line, or it is the current *)
(* year (f.now is datetime.now().year) and the line gives hour and minute. *)
(***************************************************************************)
UnixDate(f) ==
    IF f.year # None
    THEN IF ValidDate(Val(f.year), f.month, f.day, 0, 0)
         THEN Some(datetime(Val(f.year), f.month, f.day, 0, 0)) ELSE None
    ELSE IF ValidDate(f.now, f.month, f.day, f.hour, f.minute)
         THEN Some(datetime(f.now, f.month, f.day, f.hour, f.minute)) ELSE None

(***************************************************************************)
(* Nodes.  cls is the node's class; "None" is a returned None and "Raise"  *)
(* an exception raised by the parser.                                      *)
(***************************************************************************)
Directory(path, mod_date, error_msg, extra) ==
    [cls |-> "Directory", path |-> path, modification_date |-> mod_date,
     error_msg |-> error_msg, extra |-> extra, num_children |-> None]
RegularFile(path, mod_date, extra, size) ==
    [cls |-> "RegularFile", path |-> path, modification_date |-> mod_date,
     error_msg |-> None, extra |-> extra, mime |-> None, size |-> size]
SymbolicLink(path, mod_date, target) ==
    [cls |-> "SymbolicLink", path |-> path, modification_date |-> mod_date,
     error_msg |-> None, extra |-> None, target |-> target]
NoNode == [cls |-> "None"]
Raise(e) == [cls |-> "Raise", exc |-> e]
IsNode(n) == n.cls \in {"Directory", "RegularFile", "SymbolicLink"}

(***************************************************************************)
(* Symlink target of a Unix 'l' line: an absolute target is kept; a        *)
(* relative one is joined to the working path, made relative to '/' and    *)
(* put under '/' again.                                                    *)
(***************************************************************************)
SymlinkTarget(working_path, target) ==
    LET t == PurePosixPath(target)
    IN  IF IsAbsolute(t) THEN t
        ELSE PathJoin(Root, RelativeToRoot(PathJoin(working_path, t)))

(***************************************************************************)
(* A raw text line, by the fields the grammars capture.  form is the       *)
(* syntax the line is written in, m whether it has that syntax at all.     *)
(***************************************************************************)
RegexMatches(flavour_, line) == line.form = flavour_ /\ line.m

new_from_dir_line_unix(working_path, line) ==
    IF ~RegexMatches(Unix, line) THEN Raise("AssertionError")
    ELSE LET mod_date == UnixDate(line.date) IN
         IF line.inode_type = "d"
         THEN Directory(PathJoin(working_path, line.filename), mod_date, None, None)
         ELSE IF line.inode_type = "-"
         THEN (IF line.size = None THEN Raise("ValueError")
               ELSE RegularFile(PathJoin(working_path, line.filename), mod_date, None, line.size))
         ELSE IF line.inode_type = "l"
         THEN (IF ~line.arrow THEN Raise("AssertionError")
               ELSE SymbolicLink(PathJoin(working_path, line.filename), mod_date,
                                 SymlinkTarget(working_path, line.target)))
         ELSE NoNode

new_from_dir_line_msdos(working_path, line) ==
    IF ~RegexMatches(MsDos, line) THEN Raise("AssertionError")
    ELSE LET mod_date == MsDosDate(line.date) IN
         IF line.inode_type = "<DIR>"
         THEN Directory(PathJoin(working_path, line.filename), mod_date, None, None)
         ELSE IF line.size = None THEN Raise("TypeError")
         ELSE RegularFile(PathJoin(working_path, line.filename), mod_date, None, line.size)

new_from_dir_line(flavour_, working_path, line) ==
    IF flavour_ = Unix THEN new_from_dir_line_unix(working_path, line)
    ELSE IF flavour_ = MsDos THEN new_from_dir_line_msdos(working_path, line)
    ELSE Raise("ValueError")

(***************************************************************************)
(* A structured-facts item: (name, facts).  A fact the server did not send *)
(* is None; facts.modify carries whether it has the %Y%m%d%H%M%S format.   *)
(***************************************************************************)
parse_ftp_date(date_str) ==
    IF date_str = None THEN None
    ELSE IF Val(date_str).wellformed THEN Some(Val(date_str).date) ELSE None

MlsdDirTypes == {"cdir", "pdir", "dir"}
new_from_mlsd_line(flavour_, working_path, entry) ==
    LET mod_date == parse_ftp_date(entry.facts.modify)
        entry_as_json == Some(entry.facts)
    IN  IF entry.facts.type = None THEN Raise("KeyError")
        ELSE IF Val(entry.facts.type) = "file"
        THEN RegularFile(PathJoin(working_path, entry.name), mod_date, entry_as_json, entry.facts.size)
        ELSE IF Val(entry.facts.type) \in MlsdDirTypes
        THEN Directory(PathJoin(working_path, entry.name), mod_date, None, entry_as_json)
        ELSE NoNode

(***************************************************************************)
(* The catalog: three tables of rows keyed by path.  A row's field scan is *)
(* history, not a column: the number of the run that wrote the row.        *)
(***************************************************************************)
EmptyCatalog == [files |-> {}, links |-> {}, directories |-> {}]
\* a table whose path column is no key: every REPLACE INTO adds a row
ReplaceInto_nokey(table, row) == table \cup {row}
\* REPLACE INTO a table whose path column is the PRIMARY KEY
ReplaceInto(table, row) == {r \in table : r.path # row.path} \cup {row}

to_sqlite_tuple(node, by) ==
    IF node.cls = "RegularFile"
    THEN [path |-> node.path, mime |-> node.mime, size |-> node.size,
          modification_date |-> node.modification_date, extra |-> node.extra,
          error_msg |-> node.error_msg, scan |-> by]
    ELSE IF node.cls = "SymbolicLink"
    THEN [path |-> node.path, target |-> node.target,
          modification_date |-> node.modification_date, extra |-> node.extra,
          error_msg |-> node.error_msg, scan |-> by]
    ELSE [path |-> node.path, num_children |-> node.num_children,
          modification_date |-> node.modification_date, extra |-> node.extra,
          error_msg |-> node.error_msg, scan |-> by]

\* RegularFile.save, SymbolicLink.save, Directory.save
save(cat, node, by) ==
    IF node.cls = "RegularFile"
    THEN [cat EXCEPT !.files = ReplaceInto(@, to_sqlite_tuple(node, by))]
    ELSE IF node.cls = "SymbolicLink"
    THEN [cat EXCEPT !.links = ReplaceInto(@, to_sqlite_tuple(node, by))]
    ELSE [cat EXCEPT !.directories = ReplaceInto(@, to_sqlite_tuple(node, by))]

RowsOf(table, path) == {r \in table : r.path = path}
\* Directory.load: fetchone() of the SELECT by path
load(directory, cat) ==
    IF RowsOf(cat.directories, directory) = {} THEN None
    ELSE LET line == CHOOSE r \in RowsOf(cat.directories, directory) : TRUE
         IN  Some([cls |-> "Directory", path |-> line.path, num_children |-> line.num_children,
                   modification_date |-> line.modification_date, extra |-> line.extra,
                   error_msg |-> line.error_msg])

(***************************************************************************)
(* The remote server.  A tree maps each directory to what the server does  *)
(* with it: deny is the command it answers with a permanent error          *)
(* (ftplib.error_perm), entries is its listing.                            *)
(***************************************************************************)
Entry(kind, name) == [kind |-> kind, name |-> <<name>>, target |-> <<>>]
Link(name, target) == [kind |-> "link", name |-> <<name>>, target |-> target]
Dir(deny, entries) == [deny |-> deny, entries |-> entries]

TreePlain ==
    Root :> Dir("none", <<Entry("dir", "a"), Entry("file", "f"), Entry("garbage", "t"), Entry("dir", "b")>>)
    @@ <<"/", "a">> :> Dir("none", <<Link("l", <<"..", "..", "..", "..", "x">>), Entry("special", "s"),
                                      Entry("dir", "c")>>)
    @@ <<"/", "a", "c">> :> Dir("none", <<Entry("file", "g")>>)
    @@ <<"/", "b">> :> Dir("none", <<Entry("garbage", "t"), Entry("file", "h")>>)
TreeDenied ==
    Root :> Dir("none", <<Entry("dir", "a"), Entry("dir", "b"), Entry("dir", "c")>>)
    @@ <<"/", "a">> :> Dir("cwd", <<Entry("file", "f")>>)
    @@ <<"/", "b">> :> Dir("list", <<Entry("file", "g")>>)
    @@ <<"/", "c">> :> Dir("none", <<Entry("file", "h")>>)
TreeSelf ==
    Root :> Dir("none", <<Entry("dir", "."), Entry("dir", "a")>>)
    @@ <<"/", "a">> :> Dir("none", <<Entry("file", "f")>>)
TreeParent ==
    Root :> Dir("none", <<Entry("file", "f"), Entry("dir", "a")>>)
    @@ <<"/", "a">> :> Dir("none", <<Entry("dir", ".."), Entry("file", "g")>>)
\* the plain tree after a change on the server: /a, a directory, is now a file; /f, a file, is
\* now a directory; /b, a directory, is now a link
TreeChanged ==
    Root :> Dir("none", <<Entry("file", "a"), Entry("dir", "f"), Link("b", <<"f">>)>>)
    @@ <<"/", "f">> :> Dir("none", <<Entry("file", "g")>>)
Trees == <<TreePlain, TreeDenied, TreeSelf, TreeParent, TreeChanged>>
\* the form of the server's LIST output
NativeForm == <<Unix, MsDos, Unix, Unix, Unix>>
\* the tree a tree may have become when the next run starts
RemoteChange == <<5, 2, 3, 4, 5>>

\* the number of directories on the longest branch of a tree
TreeDepth(t) == LET lens == {Len(p) : p \in DOMAIN Trees[t]} IN CHOOSE n \in lens : \A k \in lens : k <= n

\* a path that is no directory of the tree cannot be entered
RemoteDir(t, path) ==
    IF Canonical(path) \in DOMAIN Trees[t] THEN Trees[t][Canonical(path)] ELSE Dir("cwd", <<>>)

UnixDateField == [year |-> Some(2023), month |-> 1, day |-> 5, hour |-> 0, minute |-> 0, now |-> 2026]
MsDosDateField == [year |-> 23, month |-> 1, day |-> 5, hour |-> 10, minute |-> 30, ampm |-> "AM"]

\* one line of the LIST output for an entry, as the grammar of its form captures it
ListLine(form, e) ==
    IF form = Unix
    THEN [form |-> Unix, m |-> e.kind # "garbage",
          inode_type |-> IF e.kind = "dir" THEN "d" ELSE IF e.kind = "file" THEN "-"
                         ELSE IF e.kind = "link" THEN "l" ELSE "c",
          filename |-> e.name, arrow |-> e.kind = "link", target |-> e.target,
          size |-> Some(120), date |-> UnixDateField]
    ELSE [form |-> MsDos, m |-> e.kind \in {"dir", "file"},
          inode_type |-> IF e.kind = "dir" THEN "<DIR>" ELSE "",
          filename |-> e.name, arrow |-> FALSE, target |-> <<>>,
          size |-> IF e.kind = "file" THEN Some(120) ELSE None, date |-> MsDosDateField]

\* one item of the MLSD output for an entry
MlsdFacts(type) == [type |-> type, size |-> None, modify |-> None]
MlsdItem(e) ==
    [name |-> e.name,
     facts |-> IF e.kind = "dir"
               THEN MlsdFacts(Some(IF e.name = <<".">> THEN "cdir" ELSE IF e.name = <<"..">> THEN "pdir" ELSE "dir"))
               ELSE IF e.kind = "file" THEN [type |-> Some("file"), size |-> Some(120), modify |-> None]
               ELSE IF e.kind = "garbage" THEN MlsdFacts(None)
               ELSE MlsdFacts(Some("OS.unix=symlink"))]

RECURSIVE MapLines(_, _)
MapLines(form, es) == IF es = <<>> THEN <<>> ELSE <<ListLine(form, Head(es))>> \o MapLines(form, Tail(es))
RECURSIVE MapItems(_)
MapItems(es) == IF es = <<>> THEN <<>> ELSE <<MlsdItem(Head(es))>> \o MapItems(Tail(es))

\* what the server sends for LIST and for MLSD in the directory
rawListing(t, path) == MapLines(NativeForm[t], RemoteDir(t, path).entries)
structuredListing(t, path) == MapItems(RemoteDir(t, path).entries)

(***************************************************************************)
(* Bounds of the model.                                                    *)
(***************************************************************************)
MaxDepth == 4      \* activations of recursive_scan_dir the model follows
MaxRuns == 2       \* runs of basic_scan into the same catalog

(***************************************************************************)
(* The state outside a scan.                                               *)
(***************************************************************************)
Idle == [this_dir |-> NoNode, n_entries |-> 0, output |-> <<>>]
NoStream == [kind |-> "none", worker |-> "none", items |-> <<>>, q |-> <<>>]
NoStatus == [p \in {} |-> "NotVisited"]
NoRun == [pc |-> "none", remote |-> 0, flavour |-> None, ends |-> <<>>, catalog |-> EmptyCatalog]
NoHist == [scans |-> <<>>, status |-> NoStatus, ends |-> <<>>, raised |-> {}, wrote |-> {}, prev |-> NoRun]
NoLine == [form |-> "none"]
JOB_DONE == [form |-> "JOB_DONE"]
Frame(directory) == [dir |-> directory, out |-> <<>>, i |-> 1]
Top == stack[Len(stack)]

ForcedFlavours == {None} \cup {Some(f) : f \in FTPFlavour \cup FlavourMemberNames}
HelpReplies == {"fails", "MLSD", "plain"}
SystReplies == {"Windows_NT", "Win32NT", "UNIX", "other", "fails"}

Init ==
    /\ remote \in 1..Len(Trees)
    /\ run = 1
    /\ pc = "init"
    /\ flavour = None
    /\ stack = <<>>
    /\ cur = Idle
    /\ stream = NoStream
    /\ db = EmptyCatalog
    /\ committed = EmptyCatalog
    /\ hist = NoHist
    /\ pin = NoLine
    /\ pout = NoNode

(***************************************************************************)
(* FTPScanner.__init__: keeps the caller's flavour, opens the connection   *)
(* to the database file, creates the tables and commits.                   *)
(***************************************************************************)
FTPScanner_init(forced) ==
    /\ pc = "init"
    /\ flavour' = forced
    /\ db' = committed
    /\ pc' = "basics"
    /\ UNCHANGED <<remote, run, stack, cur, stream, committed, hist, pin, pout>>

(***************************************************************************)
(* FTPScanner.get_basics: HELP may turn an unset flavour into Mlsd; SYST   *)
(* sets a flavour that is still unset, or raises ValueError.  A SYST that  *)
(* fails raises out of get_basics as well; a HELP that fails is logged.    *)
(***************************************************************************)
FlavourAfterHelp(f, help) == IF help = "MLSD" /\ f = None THEN Some(Mlsd) ELSE f
\* a SYST reply without a known marker taken for a Unix server
FlavourAfterSyst_unix(f, syst) ==
    IF f # None THEN f
    ELSE IF syst \in {"Windows_NT", "Win32NT"} THEN Some(MsDos)
    ELSE Some(Unix)
FlavourAfterSyst(f, syst) ==
    IF f # None THEN f
    ELSE IF syst \in {"Windows_NT", "Win32NT"} THEN Some(MsDos)
    ELSE IF syst = "UNIX" THEN Some(Unix)
    ELSE None
get_basics(help, syst) ==
    /\ pc = "basics"
    /\ LET h == FlavourAfterHelp(flavour, help)
           f == IF syst = "fails" THEN h ELSE FlavourAfterSyst(h, syst)
           raises == syst = "fails" \/ f = None
       IN  /\ flavour' = f
           /\ pc' = IF raises THEN "fatal" ELSE "ready"
           /\ committed' = IF raises THEN committed ELSE db
    /\ UNCHANGED <<remote, run, stack, cur, stream, db, hist, pin, pout>>

\* basic_scan: scanner.recursive_scan_dir(PurePosixPath(ftp_dir)); ftp_dir is '/' unless --dir
\* or the URL gives another
basic_scan(ftp_dir) ==
    /\ pc = "ready"
    /\ stack' = <<Frame(ftp_dir)>>
    /\ pc' = "scan_dir"
    /\ UNCHANGED <<remote, run, flavour, cur, stream, db, committed, hist, pin, pout>>

(***************************************************************************)
(* scan_dir.                                                               *)
(***************************************************************************)
\* except clauses that take queue.Empty for a timeout as well
ExceptClause_queue_empty(exc) ==
    IF exc = "error_perm" THEN "permission"
    ELSE IF exc \in {"TimeoutError", "Empty"} THEN "timeout"
    ELSE "uncaught"
\* the except clauses of scan_dir: ftplib.error_perm, TimeoutError; anything else propagates
ExceptClause(exc) ==
    IF exc = "error_perm" THEN "permission"
    ELSE IF exc = "TimeoutError" THEN "timeout"
    ELSE "uncaught"

SetStatus(h, directory, st) ==
    [h EXCEPT !.status = (directory :> st) @@ @, !.ends = Append(@, <<directory, st>>)]

\* an exception raised in the try block of scan_dir(Top.dir), this_dir being its local and
\* h the history so far
ScanDirRaises(h, this_dir, exc, at) ==
    LET clause == ExceptClause(exc)
        hr == [h EXCEPT !.raised = @ \cup {[dir |-> Top.dir, exc |-> exc, at |-> at,
                                            seen |-> cur.n_entries]}]
    IN  IF clause = "uncaught"
        THEN /\ pc' = "crashed"
             /\ hist' = hr
             /\ UNCHANGED <<db, stack>>
        ELSE /\ db' = save(db, [this_dir EXCEPT !.error_msg = Some(exc)], run)
             /\ stack' = [stack EXCEPT ![Len(stack)].out = <<>>]
             /\ pc' = "recurse"
             /\ hist' = SetStatus(hr, Top.dir, IF clause = "permission" THEN "Failed_permission"
                                                ELSE "Failed_timeout")

\* a fresh Directory(directory) whatever the catalog holds
ThisDir_fresh(directory) == Directory(directory, None, None, None)
\* Directory.load(directory, cur), or a fresh Directory(directory)
ThisDir(directory) ==
    IF load(directory, db) = None THEN Directory(directory, None, None, None)
    ELSE Val(load(directory, db))

Entered(h, directory) ==
    [h EXCEPT !.scans = Append(@, directory),
              !.status = (directory :> "InProgress") @@ @,
              !.wrote = {w \in @ : w.dir # directory}]

\* self.ftp.cwd(str(directory)) raises: the server denies it, or the socket times out
CwdRaises(t, directory) ==
    (IF RemoteDir(t, directory).deny = "cwd" THEN {"error_perm"} ELSE {}) \cup {"TimeoutError"}
\* the first next() of self.ftp.mlsd() raises
MlsdRaises(t, directory) ==
    (IF RemoteDir(t, directory).deny = "list" THEN {"error_perm"} ELSE {}) \cup {"TimeoutError"}

\* scan_dir up to a cwd that raises
scan_dir_cwd_raises ==
    /\ pc = "scan_dir"
    /\ \E exc \in CwdRaises(remote, Top.dir) :
         ScanDirRaises(Entered(hist, Top.dir), ThisDir(Top.dir), exc, "cwd")
    /\ UNCHANGED <<remote, run, flavour, cur, stream, committed, pin, pout>>

\* scan_dir, Mlsd flavour, up to a first next() of ftp.mlsd() that raises
scan_dir_mlsd_raises ==
    /\ pc = "scan_dir"
    /\ flavour = Some(Mlsd)
    /\ RemoteDir(remote, Top.dir).deny # "cwd"
    /\ \E exc \in MlsdRaises(remote, Top.dir) :
         ScanDirRaises(Entered(hist, Top.dir), ThisDir(Top.dir), exc, "list")
    /\ UNCHANGED <<remote, run, flavour, cur, stream, committed, pin, pout>>

\* scan_dir, Mlsd flavour, up to the listing retrieved by the first next() of ftp.mlsd()
scan_dir_mlsd ==
    /\ pc = "scan_dir"
    /\ flavour = Some(Mlsd)
    /\ RemoteDir(remote, Top.dir).deny = "none"
    /\ cur' = [this_dir |-> ThisDir(Top.dir), n_entries |-> 0, output |-> <<>>]
    /\ stream' = [kind |-> "mlsd", worker |-> "none",
                  items |-> structuredListing(remote, Top.dir), q |-> <<>>]
    /\ hist' = Entered(hist, Top.dir)
    /\ pc' = "consume"
    /\ UNCHANGED <<remote, run, flavour, stack, db, committed, pin, pout>>

\* scan_dir, text flavours, up to the first q.get of _read_lines: the worker thread is started
scan_dir_read_lines ==
    /\ pc = "scan_dir"
    /\ flavour # Some(Mlsd)
    /\ RemoteDir(remote, Top.dir).deny # "cwd"
    /\ cur' = [this_dir |-> ThisDir(Top.dir), n_entries |-> 0, output |-> <<>>]
    /\ stream' = [kind |-> "lines", worker |-> "running",
                  items |-> rawListing(remote, Top.dir), q |-> <<>>]
    /\ hist' = Entered(hist, Top.dir)
    /\ pc' = "consume"
    /\ UNCHANGED <<remote, run, flavour, stack, db, committed, pin, pout>>

(***************************************************************************)
(* The worker thread of _read_lines: task() and append_line().             *)
(***************************************************************************)
QueueMaxsize == 1

\* retrlines raises in the worker: the server denies LIST; the thread ends without JOB_DONE
task_raises ==
    /\ stream.kind = "lines" /\ stream.worker = "running"
    /\ RemoteDir(remote, hist.scans[Len(hist.scans)]).deny = "list"
    /\ stream' = [stream EXCEPT !.worker = "dead"]
    /\ hist' = [hist EXCEPT !.raised = @ \cup {[dir |-> hist.scans[Len(hist.scans)], exc |-> "error_perm",
                                                at |-> "worker", seen |-> cur.n_entries]}]
    /\ UNCHANGED <<remote, run, pc, flavour, stack, cur, db, committed, pin, pout>>

\* q.put(chunk) on a queue without a size limit
append_line_unbounded ==
    /\ stream.kind = "lines" /\ stream.worker = "running"
    /\ RemoteDir(remote, hist.scans[Len(hist.scans)]).deny # "list"
    /\ stream.items # <<>>
    /\ stream' = [stream EXCEPT !.q = Append(@, Head(stream.items)), !.items = Tail(@)]
    /\ UNCHANGED <<remote, run, pc, flavour, stack, cur, db, committed, hist, pin, pout>>
\* append_line: q.put(chunk), which blocks while the queue is full
append_line ==
    /\ stream.kind = "lines" /\ stream.worker = "running"
    /\ RemoteDir(remote, hist.scans[Len(hist.scans)]).deny # "list"
    /\ stream.items # <<>>
    /\ Len(stream.q) < QueueMaxsize
    /\ stream' = [stream EXCEPT !.q = Append(@, Head(stream.items)), !.items = Tail(@)]
    /\ UNCHANGED <<remote, run, pc, flavour, stack, cur, db, committed, hist, pin, pout>>

\* q.put(JOB_DONE) after retrlines has returned; the thread ends
task_done ==
    /\ stream.kind = "lines" /\ stream.worker = "running"
    /\ RemoteDir(remote, hist.scans[Len(hist.scans)]).deny # "list"
    /\ stream.items = <<>>
    /\ Len(stream.q) < QueueMaxsize
    /\ stream' = [stream EXCEPT !.q = Append(@, JOB_DONE), !.worker = "done"]
    /\ UNCHANGED <<remote, run, pc, flavour, stack, cur, db, committed, hist, pin, pout>>

(***************************************************************************)
(* The loop of scan_dir over dir_listing.                                  *)
(***************************************************************************)
new_node_func(f, directory, line) ==
    IF f = Some(Mlsd) THEN new_from_mlsd_line(Val(f), directory, line)
    ELSE new_from_dir_line(Val(f), directory, line)

\* counting after the parse, only the lines that gave a node
CountLine_parsed(n_entries, node) == IF IsNode(node) THEN n_entries + 1 ELSE n_entries
\* n_entries += 1, for every line handed to the loop
CountLine(n_entries, node) == n_entries + 1

\* an exception of the parser not caught around the line
EntryOutcome_abort(node) ==
    IF IsNode(node) THEN "save" ELSE IF node.cls = "Raise" THEN "raise" ELSE "skip"
\* the try block around one line: a node is saved and kept, None is passed over, an exception
\* is logged
EntryOutcome(node) == IF IsNode(node) THEN "save" ELSE "skip"

\* the next item of dir_listing is there: a line in the queue, or the next pair of ftp.mlsd()
HasNext ==
    IF stream.kind = "lines" THEN stream.q # <<>> /\ stream.q[1].form # "JOB_DONE"
    ELSE stream.items # <<>>
NextItem == IF stream.kind = "lines" THEN stream.q[1] ELSE Head(stream.items)
\* dir_listing is exhausted: JOB_DONE is in the queue, or ftp.mlsd() has no more pairs
Exhausted ==
    IF stream.kind = "lines" THEN stream.q # <<>> /\ stream.q[1].form = "JOB_DONE"
    ELSE stream.items = <<>>

\* one turn of the loop
scan_dir_line ==
    /\ pc = "consume"
    /\ HasNext
    /\ LET node == new_node_func(flavour, Top.dir, NextItem)
           n == CountLine(cur.n_entries, node)
           outcome == EntryOutcome(node)
       IN  /\ stream' = IF stream.kind = "lines" THEN [stream EXCEPT !.q = Tail(@)]
                        ELSE [stream EXCEPT !.items = Tail(@)]
           /\ IF outcome = "save"
              THEN /\ cur' = [cur EXCEPT !.n_entries = n, !.output = Append(@, node)]
                   /\ db' = save(db, node, run)
                   /\ hist' = [hist EXCEPT !.wrote = @ \cup {[dir |-> Top.dir, path |-> node.path]}]
                   /\ UNCHANGED <<pc, stack>>
              ELSE IF outcome = "skip"
              THEN /\ cur' = [cur EXCEPT !.n_entries = n]
                   /\ UNCHANGED <<pc, stack, db, hist>>
              ELSE /\ cur' = [cur EXCEPT !.n_entries = n]
                   /\ ScanDirRaises(hist, cur.this_dir, node.exc, "entry")
    /\ UNCHANGED <<remote, run, flavour, committed, pin, pout>>

\* q.get(timeout=TIMEOUT) finds the queue empty for TIMEOUT seconds: queue.Empty
scan_dir_queue_empty ==
    /\ pc = "consume"
    /\ stream.kind = "lines"
    /\ stream.q = <<>>
    /\ ScanDirRaises(hist, cur.this_dir, "Empty", "stream")
    /\ UNCHANGED <<remote, run, flavour, cur, stream, committed, pin, pout>>

\* after the loop: t.join() in _read_lines, then num_children, save, commit, return output
scan_dir_return ==
    /\ pc = "consume"
    /\ Exhausted
    /\ stream.kind = "lines" => stream.worker = "done"
    /\ db' = save(db, [cur.this_dir EXCEPT !.num_children = Some(cur.n_entries)], run)
    /\ committed' = db'
    /\ stack' = [stack EXCEPT ![Len(stack)].out = cur.output]
    /\ hist' = SetStatus(hist, Top.dir, "Completed")
    /\ cur' = Idle
    /\ stream' = NoStream
    /\ pc' = "recurse"
    /\ UNCHANGED <<remote, run, flavour, pin, pout>>

(***************************************************************************)
(* recursive_scan_dir: the loop over the nodes scan_dir returned.          *)
(***************************************************************************)
\* the last Directory node first
NextDirectory_last(out, i) ==
    LET js == {j \in i..Len(out) : out[j].cls = "Directory"}
    IN  IF js = {} THEN 0 ELSE CHOOSE j \in js : \A k \in js : j >= k
\* the index of the next Directory node at or after i, 0 when there is none
NextDirectory(out, i) ==
    LET js == {j \in i..Len(out) : out[j].cls = "Directory"}
    IN  IF js = {} THEN 0 ELSE CHOOSE j \in js : \A k \in js : j <= k

recursive_scan_dir_call ==
    /\ pc = "recurse"
    /\ NextDirectory(Top.out, Top.i) # 0
    /\ Len(stack) < MaxDepth
    /\ LET j == NextDirectory(Top.out, Top.i)
       IN  stack' = Append([stack EXCEPT ![Len(stack)].i = j + 1], Frame(Top.out[j].path))
    /\ pc' = "scan_dir"
    /\ cur' = Idle
    /\ UNCHANGED <<remote, run, flavour, stream, db, committed, hist, pin, pout>>

recursive_scan_dir_return ==
    /\ pc = "recurse"
    /\ NextDirectory(Top.out, Top.i) = 0
    /\ stack' = SubSeq(stack, 1, Len(stack) - 1)
    /\ pc' = IF Len(stack) = 1 THEN "close" ELSE "recurse"
    /\ cur' = Idle
    /\ UNCHANGED <<remote, run, flavour, stream, db, committed, hist, pin, pout>>

\* FTPScanner.close: the connection is closed without a commit
close ==
    /\ pc = "close"
    /\ db' = committed
    /\ pc' = "done"
    /\ UNCHANGED <<remote, run, flavour, stack, cur, stream, committed, hist, pin, pout>>

\* the next run of basic_scan, a new process, into the same database file; the server's tree
\* is as it was or has changed meanwhile
next_run ==
    /\ pc \in {"done", "crashed", "fatal"}
    /\ run < MaxRuns
    /\ run' = run + 1
    /\ pc' = "init"
    /\ flavour' = None
    /\ stack' = <<>>
    /\ cur' = Idle
    /\ stream' = NoStream
    /\ db' = committed
    /\ remote' \in {remote, RemoteChange[remote]}
    /\ hist' = [NoHist EXCEPT !.prev = [pc |-> pc, remote |-> remote, flavour |-> flavour,
                                        ends |-> hist.ends, catalog |-> committed]]
    /\ UNCHANGED <<committed, pin, pout>>

Next ==
    \/ \E forced \in ForcedFlavours : FTPScanner_init(forced)
    \/ \E help \in HelpReplies, syst \in SystReplies : get_basics(help, syst)
    \/ basic_scan(Root)
    \/ scan_dir_cwd_raises
    \/ scan_dir_mlsd_raises
    \/ scan_dir_mlsd
    \/ scan_dir_read_lines
    \/ task_raises
    \/ append_line
    \/ task_done
    \/ scan_dir_line
    \/ scan_dir_queue_empty
    \/ scan_dir_return
    \/ recursive_scan_dir_call
    \/ recursive_scan_dir_return
    \/ close
    \/ next_run

Spec == Init /\ [][Next]_vars

(***************************************************************************)
(* Runs that may start at a directory given with --dir (or in the URL)     *)
(* instead of the default '/'.                                             *)
(***************************************************************************)
StartDirs == {Root, <<"/", "a">>}

NextDir ==
    \/ \E forced \in ForcedFlavours : FTPScanner_init(forced)
    \/ \E help \in HelpReplies, syst \in SystReplies : get_basics(help, syst)
    \/ \E ftp_dir \in StartDirs : basic_scan(ftp_dir)
    \/ scan_dir_cwd_raises
    \/ scan_dir_mlsd_raises
    \/ scan_dir_mlsd
    \/ scan_dir_read_lines
    \/ task_raises
    \/ append_line
    \/ task_done
    \/ scan_dir_line
    \/ scan_dir_queue_empty
    \/ scan_dir_return
    \/ recursive_scan_dir_call
    \/ recursive_scan_dir_return
    \/ close
    \/ next_run

SpecDir == Init /\ [][NextDir]_vars

(***************************************************************************)
(* The parser alone: a line is drawn, new_from_dir_line is applied to it.  *)
(***************************************************************************)
TwoDigitMax == 99      \* [0-9]{2} of MsDosDirRegex
MaxHour == 13          \* hours 00..MaxHour are drawn
MaxTargetLen == 5      \* segments of a symlink target

MsDosLines ==
    { [form |-> MsDos, m |-> TRUE, inode_type |-> it, filename |-> <<"x">>, arrow |-> FALSE,
       target |-> <<>>, size |-> Some(120),
       date |-> [year |-> y, month |-> mo, day |-> d, hour |-> h, minute |-> 30, ampm |-> ap]] :
      it \in {"<DIR>", ""}, y \in 0..TwoDigitMax, mo \in {2, 12}, d \in {29, 31}, h \in 0..MaxHour,
      ap \in {"AM", "PM"} }
TargetSegments == {"..", ".", "x"}
Targets == UNION { [1..n -> TargetSegments] : n \in 1..MaxTargetLen }
UnixLinkLines ==
    { [form |-> Unix, m |-> TRUE, inode_type |-> "l", filename |-> <<"l">>, arrow |-> TRUE,
       target |-> IF abs THEN <<"/">> \o t ELSE t, size |-> Some(1), date |-> UnixDateField] :
      t \in Targets, abs \in BOOLEAN }
UnixOtherLines ==
    { [form |-> Unix, m |-> mm, inode_type |-> it, filename |-> <<"x">>, arrow |-> FALSE,
       target |-> <<>>, size |-> sz,
       date |-> [year |-> y, month |-> 2, day |-> 29, hour |-> 10, minute |-> 30, now |-> 2026]] :
      mm \in BOOLEAN, it \in {"d", "-", "l", "c"}, sz \in {None, Some(120)}, y \in {None, Some(2023), Some(2024)} }
WorkingPaths == {Root, <<"/", "a">>, <<"/", "a", "b">>}
ParseInputs ==
    { [flavour |-> MsDos, working_path |-> w, line |-> l] : w \in {Root}, l \in MsDosLines }
    \cup { [flavour |-> Unix, working_path |-> w, line |-> l] : w \in WorkingPaths, l \in UnixLinkLines }
    \cup { [flavour |-> f, working_path |-> w, line |-> l] : f \in {Unix, MsDos}, w \in {<<"/", "a">>},
                                                            l \in UnixOtherLines }

InitParse ==
    /\ remote = 1
    /\ run = 1
    /\ pc = "parse"
    /\ flavour = None
    /\ stack = <<>>
    /\ cur = Idle
    /\ stream = NoStream
    /\ db = EmptyCatalog
    /\ committed = EmptyCatalog
    /\ hist = NoHist
    /\ pin \in ParseInputs
    /\ pout = NoNode

parse_line ==
    /\ pc = "parse"
    /\ pout' = new_from_dir_line(pin.flavour, pin.working_path, pin.line)
    /\ pc' = "parsed"
    /\ UNCHANGED <<remote, run, flavour, stack, cur, stream, db, committed, hist, pin>>

NextParse == parse_line

SpecParse == InitParse /\ [][NextParse]_vars

(***************************************************************************)
(* One run of basic_scan with what the caller and the server give to       *)
(* FTPScanner and get_basics drawn beforehand: the flavour argument, the   *)
(* reply to HELP and the reply to SYST.                                    *)
(***************************************************************************)
BasicsInputs ==
    { [form |-> "basics", forced |-> fo, help |-> he, syst |-> sy] :
      fo \in ForcedFlavours, he \in HelpReplies, sy \in SystReplies }

InitRun ==
    /\ remote \in 1..Len(Trees)
    /\ run = 1
    /\ pc = "init"
    /\ flavour = None
    /\ stack = <<>>
    /\ cur = Idle
    /\ stream = NoStream
    /\ db = EmptyCatalog
    /\ committed = EmptyCatalog
    /\ hist = NoHist
    /\ pin \in BasicsInputs
    /\ pout = NoNode

NextRun ==
    \/ FTPScanner_init(pin.forced)
    \/ get_basics(pin.help, pin.syst)
    \/ basic_scan(Root)
    \/ scan_dir_cwd_raises
    \/ scan_dir_mlsd_raises
    \/ scan_dir_mlsd
    \/ scan_dir_read_lines
    \/ task_raises
    \/ append_line
    \/ task_done
    \/ scan_dir_line
    \/ scan_dir_queue_empty
    \/ scan_dir_return
    \/ recursive_scan_dir_call
    \/ recursive_scan_dir_return
    \/ close

SpecRun == InitRun /\ [][NextRun]_vars

(***************************************************************************)
(* Properties.                                                             *)
(***************************************************************************)
StatusOf(p) == IF p \in DOMAIN hist.status THEN hist.status[p] ELSE "NotVisited"
Failed(p) == StatusOf(p) \in {"Failed_permission", "Failed_timeout"}
ErrorRows(cat, p) == {r \in RowsOf(cat.directories, p) : r.error_msg # None}
TableNames == {"files", "links", "directories"}
TableOf(cat, name) ==
    IF name = "files" THEN cat.files ELSE IF name = "links" THEN cat.links ELSE cat.directories
AllRows(cat, p) == RowsOf(cat.files, p) \cup RowsOf(cat.links, p) \cup RowsOf(cat.directories, p)
StreamTimeouts == {r \in hist.raised : r.exc = "Empty"}

\* C1: when the consumer of the line stream times out waiting for an item of directory D, the
\* run does not end: D becomes Failed(timeout) and its directory record carries an error
\* message.  (The code lets queue.Empty leave scan_dir, which ends the run.)
C1_StreamTimeoutScoped ==
    \A r \in StreamTimeouts :
        /\ pc # "crashed"
        /\ StatusOf(r.dir) = "Failed_timeout"
        /\ ErrorRows(db, r.dir) # {}

\* C2: every directory the server answered with a permanent error, be it to CWD, to MLSD or
\* to the LIST sent by the stream's worker, is Failed(permission) when the run has ended.
C2_PermissionScoped ==
    pc \in {"done", "crashed"} =>
        \A r \in hist.raised : r.exc = "error_perm" => StatusOf(r.dir) = "Failed_permission"

\* C3: once the scan of directory D has failed (permission or timeout, before or after items
\* were consumed), the catalog holds exactly one directory record of D, with an error message,
\* and no record this scan wrote for a child of D.
C3_FailedRecordOnly ==
    \A r \in hist.raised :
        (pc = "crashed" \/ Failed(r.dir)) =>
            /\ Cardinality(RowsOf(db.directories, r.dir)) = 1
            /\ ErrorRows(db, r.dir) = RowsOf(db.directories, r.dir)
            /\ {w \in hist.wrote : w.dir = r.dir} = {}

\* C4: when the run has ended with the scanner closed, the catalog in the database file holds,
\* for every directory that failed in the run, its record with the error message.
C4_FailuresInFinalCatalog ==
    pc = "done" => \A p \in DOMAIN hist.status : Failed(p) => ErrorRows(committed, p) # {}

\* C5: the directory record of every Completed directory has num_children equal to the number
\* of raw items of its listing, parsable or not.
C5_ChildCountIsRawCount ==
    \A p \in DOMAIN hist.status :
        hist.status[p] = "Completed" =>
            /\ RowsOf(db.directories, p) # {}
            /\ \A r \in RowsOf(db.directories, p) :
                   r.num_children = Some(Len(RemoteDir(remote, p).entries))

\* C5 witness: a directory completed with fewer nodes than raw lines and the raw count kept
C5_Witness ==
    /\ pc = "recurse" /\ Len(stack) = 1 /\ remote = 1
    /\ StatusOf(Root) = "Completed"
    /\ Len(Top.out) = 3
    /\ \E r \in RowsOf(db.directories, Root) : r.num_children = Some(4)

\* C6: in every run each directory path is scanned at most once and the recursion is never
\* deeper than the tree.
C6_ScansOnceWithinDepth ==
    /\ \A i, j \in 1..Len(hist.scans) : hist.scans[i] = hist.scans[j] => i = j
    /\ Len(stack) <= TreeDepth(remote)

\* the 24-hour equivalent of a 12-hour time
Hour24(hh, ampm) ==
    IF ampm = "PM" THEN (IF hh = 12 THEN 12 ELSE hh + 12) ELSE (IF hh = 12 THEN 0 ELSE hh)

\* C7: an MsDos line with a 12-hour time hh (01..12) and an AM/PM marker gets the 24-hour
\* equivalent as its hour: 12 PM is 12, 12 AM is 0, 01..11 PM is hh+12, 01..11 AM is hh.
C7_MsDosHour ==
    (/\ pc = "parsed" /\ pin.flavour = MsDos /\ pin.line.form = MsDos
     /\ pin.line.date.hour \in 1..12
     /\ ValidDate(MsDosYear(pin.line.date.year), pin.line.date.month, pin.line.date.day, 0,
                  pin.line.date.minute))
    => /\ IsNode(pout)
       /\ pout.modification_date # None
       /\ Val(pout.modification_date).hour = Hour24(pin.line.date.hour, pin.line.date.ampm)

\* C8: the stored target of a Unix symlink line with a relative target is the join of the
\* working path and the target with every '..' collapsed and clamped at the root; it holds
\* no '..' segment.
C8_SymlinkTargetCollapsed ==
    (/\ pc = "parsed" /\ pin.flavour = Unix /\ pin.line.form = Unix /\ pin.line.m
     /\ pin.line.inode_type = "l" /\ pin.line.arrow
     /\ ~IsAbsolute(pin.line.target))
    => /\ pout.cls = "SymbolicLink"
       /\ pout.target = Canonical(PathJoin(pin.working_path, pin.line.target))
       /\ ~HasDotDot(pout.target)

\* the two latest runs went the same way: same tree on the server, same flavour, the same scans ending the same way in
\* the same order, both runs ended with the scanner closed
SameAsPrevious ==
    /\ run > 1 /\ pc = "done"
    /\ hist.prev.pc = "done"
    /\ hist.prev.remote = remote
    /\ hist.prev.flavour = flavour
    /\ hist.prev.ends = hist.ends
KeysOf(table) == {r.path : r \in table}

\* C9: no table ever holds two rows of one path; and when the same tree has been scanned twice
\* the same way, each table of the final catalog has the keys and the number of rows it had
\* after the first of the two scans, and no row the first one wrote is left: the later scan
\* has overwritten each.
C9_RescanOverwrites ==
    /\ \A name \in TableNames : \A cat \in {db, committed} :
           \A r1, r2 \in TableOf(cat, name) : r1.path = r2.path => r1 = r2
    /\ SameAsPrevious =>
           \A name \in TableNames :
               /\ KeysOf(TableOf(committed, name)) = KeysOf(TableOf(hist.prev.catalog, name))
               /\ Cardinality(TableOf(committed, name)) = Cardinality(TableOf(hist.prev.catalog, name))
               /\ \A r \in TableOf(committed, name) : r.scan # run - 1

\* C9 witness: the plain tree scanned twice to the end the same way, in the Unix flavour
C9_Witness ==
    /\ SameAsPrevious /\ remote = 1 /\ flavour = Some(Unix)
    /\ \A p \in DOMAIN Trees[1] : StatusOf(p) = "Completed"
    /\ Cardinality(committed.files) = 3 /\ Cardinality(committed.links) = 1
    /\ Cardinality(committed.directories) = 4
    /\ hist.prev.catalog.files # {}

\* the items the server sends for a directory in the run's flavour
ListingFor(p) ==
    IF flavour = Some(Mlsd) THEN structuredListing(remote, p) ELSE rawListing(remote, p)

\* C10: no failure of one entry ends its directory's scan; and in every Completed directory
\* each item that parses has its record, written in this run, while an item that does not
\* parse, or is of an unsupported type, has none written for it.
C10_EntryFailureSkipsEntryOnly ==
    /\ \A r \in hist.raised : r.at # "entry"
    /\ \A p \in DOMAIN hist.status :
           hist.status[p] = "Completed" =>
               \A i \in 1..Len(ListingFor(p)) :
                   LET node == new_node_func(flavour, p, ListingFor(p)[i])
                   IN  IF IsNode(node)
                       THEN \E r \in AllRows(db, node.path) : r.scan = run
                       ELSE [dir |-> p, path |-> PathJoin(p, RemoteDir(remote, p).entries[i].name)]
                                \notin hist.wrote

\* C10 witness: the plain tree in the Unix flavour, every directory Completed although / and /b
\* hold a line outside the grammar and /a a line of unsupported type; the entries around them
\* have their records
C10_Witness ==
    /\ pc = "close" /\ remote = 1 /\ flavour = Some(Unix)
    /\ \A p \in DOMAIN Trees[1] : StatusOf(p) = "Completed"
    /\ RowsOf(db.files, <<"/", "f">>) # {} /\ RowsOf(db.directories, <<"/", "b">>) # {}
    /\ RowsOf(db.files, <<"/", "b", "h">>) # {} /\ RowsOf(db.directories, <<"/", "a", "c">>) # {}
    /\ AllRows(db, <<"/", "t">>) = {} /\ AllRows(db, <<"/", "a", "s">>) = {}

\* the grammar a run applies to the items of its listings under self.flavour f: scan_dir takes
\* MLSD and new_from_mlsd_line when f equals FTPFlavour.Mlsd, else LIST and new_from_dir_line,
\* which knows FTPFlavour.Unix and FTPFlavour.MsDos and raises ValueError on anything else
GrammarApplied(f) ==
    IF f = Some(Mlsd) THEN Mlsd
    ELSE IF Val(f) = Unix THEN Unix
    ELSE IF Val(f) = MsDos THEN MsDos
    ELSE "unsupported"

\* the member of FTPFlavour a forced flavour denotes, by value or by member name
MemberOf(f) ==
    IF f \in {Unix, "Unix"} THEN Unix ELSE IF f \in {MsDos, "MsDos"} THEN MsDos ELSE Mlsd
\* the flavour the run is to have: the forced one, else Mlsd when HELP advertises MLSD, else by
\* the marker in the reply to SYST
ExpectedFlavour ==
    IF pin.forced # None THEN MemberOf(Val(pin.forced))
    ELSE IF pin.help = "MLSD" THEN Mlsd
    ELSE IF pin.syst \in {"Windows_NT", "Win32NT"} THEN MsDos
    ELSE IF pin.syst = "UNIX" THEN Unix
    ELSE "none"
ScanningPcs == {"ready", "scan_dir", "consume", "recurse", "close", "done", "crashed"}

\* C11: from the end of get_basics to the end of the run the flavour is one and the same, the
\* forced one when the caller (the command line included) forced one, else Mlsd when HELP
\* advertises MLSD, else MsDos or Unix by the reply to SYST; and that flavour's grammar is what
\* the run applies to every listing: MLSD items for Mlsd, LIST lines in the flavour's syntax
\* otherwise.
C11_FlavourChosenOnce ==
    pc \in ScanningPcs =>
        /\ GrammarApplied(flavour) = ExpectedFlavour
        /\ pc = "consume" => stream.kind = (IF ExpectedFlavour = Mlsd THEN "mlsd" ELSE "lines")

\* C12: with no forced flavour, no MLSD in the reply to HELP (or no reply to HELP) and neither
\* a Windows nor a Unix marker in the reply to SYST, get_basics ends the run: no directory is
\* entered or listed, no worker is started and no record is written or committed.
C12_UnknownFlavourFatal ==
    (/\ pin.forced = None /\ pin.help # "MLSD" /\ pin.syst = "other"
     /\ pc \notin {"init", "basics"})
    => /\ pc = "fatal"
       /\ hist.scans = <<>> /\ hist.status = NoStatus /\ hist.wrote = {}
       /\ stack = <<>> /\ stream = NoStream
       /\ db = EmptyCatalog /\ committed = EmptyCatalog

\* C12 witness: get_basics has raised on a SYST reply of an unknown system
C12_Witness ==
    /\ pc = "fatal" /\ flavour = None
    /\ pin.forced = None /\ pin.help = "plain" /\ pin.syst = "other"

\* the year a two-digit year stands for
WindowedYear(yy) == IF yy >= 70 THEN 1900 + yy ELSE 2000 + yy

\* C13: an MsDos line with the two-digit year yy gives a node; its date is there exactly when
\* month and day exist in the year 1900+yy (70 <= yy <= 99) or 2000+yy (0 <= yy <= 69), and
\* that year is the date's year.
C13_MsDosYearWindow ==
    (pc = "parsed" /\ pin.flavour = MsDos /\ pin.line.form = MsDos /\ pin.line.m)
    => LET d == pin.line.date
           y == WindowedYear(d.year)
       IN  /\ IsNode(pout)
           /\ pout.modification_date # None <=> d.day <= DaysIn(y, d.month)
           /\ pout.modification_date # None => Val(pout.modification_date).year = y

\* C13 witness: the years on both sides of the window, 70 and 69, and the leap day of year 00
C13_Witness ==
    /\ pc = "parsed" /\ pin.flavour = MsDos /\ pin.line.form = MsDos
    /\ pout.modification_date # None
    /\ \/ pin.line.date.year = 70 /\ Val(pout.modification_date).year = 1970
       \/ pin.line.date.year = 69 /\ Val(pout.modification_date).year = 2069
       \/ /\ pin.line.date.year = 0 /\ pin.line.date.month = 2 /\ pin.line.date.day = 29
          /\ Val(pout.modification_date).year = 2000

\* the paths of the Directory nodes the items of p's listing give, in listing order
DirChildren(p) ==
    LET L == ListingFor(p)
        nodes == [i \in 1..Len(L) |-> new_node_func(flavour, p, L[i])]
        IsDir(n) == n.cls = "Directory"
        dirs == SelectSeq(nodes, IsDir)
    IN  [k \in 1..Len(dirs) |-> dirs[k].path]

\* the directories entered so far as a depth-first pre-order walk from p lists them: p, then
\* for a Completed p the walks from its directory children in listing order
RECURSIVE PreOrderSoFar(_), PreOrderOfAll(_)
PreOrderSoFar(p) ==
    IF StatusOf(p) = "NotVisited" THEN <<>>
    ELSE <<p>> \o (IF StatusOf(p) = "Completed" THEN PreOrderOfAll(DirChildren(p)) ELSE <<>>)
PreOrderOfAll(ps) ==
    IF ps = <<>> THEN <<>> ELSE PreOrderSoFar(Head(ps)) \o PreOrderOfAll(Tail(ps))

\* the scan of p has ended and so has the whole subtree below it
RECURSIVE Finished(_)
Finished(p) ==
    /\ StatusOf(p) \in {"Completed", "Failed_permission", "Failed_timeout"}
    /\ StatusOf(p) = "Completed" =>
           \A k \in 1..Len(DirChildren(p)) : Finished(DirChildren(p)[k])

\* a scan of p has reached Completed in this run
HasCompleted(p) == \E k \in 1..Len(hist.ends) : hist.ends[k] = <<p, "Completed">>

\* no directory of the tree lists itself or its parent
SelfFree(t) ==
    \A p \in DOMAIN Trees[t] :
        \A k \in 1..Len(Trees[t][p].entries) : Trees[t][p].entries[k].name \notin {<<".">>, <<"..">>}

\* C14: directories are entered depth first in pre-order, one at a time.  Each activation
\* below the first scans a Directory node of its caller's completed listing, and when it is
\* about to enter it the caller's directory has been Completed and its record, num_children
\* included, is in the database file; at most one directory is InProgress.  In a tree where no
\* directory lists itself or its parent, the directories entered so far are, in this order,
\* the pre-order walk of the tree over the Directory nodes of the Completed listings (so no
\* file and no link is entered), a later sibling is entered only when the subtrees of the
\* earlier ones are finished, and when the run closes every subtree is finished.
C14_DepthFirstPreOrder ==
    /\ \A k \in 2..Len(stack) :
           LET par == stack[k - 1]
           IN  /\ par.i >= 2 /\ par.i - 1 <= Len(par.out)
               /\ par.out[par.i - 1].cls = "Directory"
               /\ par.out[par.i - 1].path = stack[k].dir
               /\ \A j \in 1..Len(par.out) : par.out[j].cls = "Directory" /\ j < par.i - 1
                      => StatusOf(par.out[j].path) \notin {"NotVisited", "InProgress"}
    /\ (pc = "scan_dir" /\ Len(stack) >= 2) =>
           /\ HasCompleted(stack[Len(stack) - 1].dir)
           /\ \E r \in RowsOf(committed.directories, stack[Len(stack) - 1].dir) :
                  r.num_children # None /\ r.scan = run
    /\ Cardinality({p \in DOMAIN hist.status : hist.status[p] = "InProgress"}) <= 1
    /\ (SelfFree(remote) /\ flavour # None) =>
           /\ hist.scans # <<>> => hist.scans = PreOrderSoFar(hist.scans[1])
           /\ \A p \in DOMAIN hist.status :
                  hist.status[p] = "Completed" =>
                      \A i, j \in 1..Len(DirChildren(p)) :
                          (i < j /\ StatusOf(DirChildren(p)[j]) # "NotVisited")
                              => Finished(DirChildren(p)[i])
           /\ pc \in {"close", "done"} => Finished(hist.scans[1])

\* C14 witness: the plain tree scanned to the end in the Unix flavour: /a and all below it
\* before /b; the file /f and the link /a/l never entered
C14_Witness ==
    /\ pc = "close" /\ remote = 1 /\ flavour = Some(Unix)
    /\ hist.scans = <<Root, <<"/", "a">>, <<"/", "a", "c">>, <<"/", "b">> >>
    /\ RowsOf(db.links, <<"/", "a", "l">>) # {}

\* C15: outside the loop over the stream of a directory no worker thread is alive: when the
\* stream has ended, by JOB_DONE or by a q.get that timed out, its worker has ended and none
\* is left running or blocked in q.put.  (t.join() is reached only after JOB_DONE; a q.get
\* that times out leaves _read_lines by the exception with the thread still there.)
C15_WorkerAwaited ==
    pc # "consume" => stream.worker # "running"

\* the positions at which the scanning thread sends a command on the session: STAT, HELP,
\* FEAT and SYST in get_basics, CWD and MLSD in scan_dir
MainCommandPcs == {"basics", "scan_dir"}

\* C16: the scanning thread never is at a command of its own while the worker's LIST is under
\* way, so at most one command is in flight on the session; and no step of the worker
\* (retrlines raising, q.put of a line, q.put of JOB_DONE) changes the catalog, neither the
\* connection's view nor the database file.
C16_OneCommandOneWriter ==
    /\ [](pc \in MainCommandPcs => stream.worker # "running")
    /\ [][(task_raises \/ append_line \/ task_done) => UNCHANGED <<db, committed>>]_vars

\* C16 witness: the worker is alive with a line in the queue while the consumer has taken
\* lines and written records that are not committed yet
C16_Witness ==
    /\ pc = "consume" /\ stream.worker = "running" /\ Len(stream.q) = 1
    /\ cur.n_entries >= 1 /\ db # committed

\* the lines in the queue, JOB_DONE left out
QueuedLines == SelectSeq(stream.q, LAMBDA c : c.form # "JOB_DONE")

\* C17: while the consumer is in the loop over the line stream of a directory whose LIST gives
\* the lines i1..in, the lines it has taken so far are i1..ik in this order (the next one it
\* takes is i(k+1)), the lines not yet taken are in the queue or still with the worker, in
\* order, none lost and none twice; the queue never holds more than one item; and the loop
\* ends normally only with all n lines taken, JOB_DONE put and the worker thread ended.
C17_StreamDeliversInOrder ==
    /\ [](/\ Len(stream.q) <= 1
          /\ (pc = "consume" /\ stream.kind = "lines") =>
                LET raw == rawListing(remote, Top.dir)
                IN  /\ cur.n_entries <= Len(raw)
                    /\ SubSeq(raw, cur.n_entries + 1, Len(raw)) = QueuedLines \o stream.items
                    /\ HasNext => NextItem = raw[cur.n_entries + 1])
    /\ [][(pc = "consume" /\ stream.kind = "lines" /\ pc' = "recurse")
            => /\ stream.worker = "done" /\ stream.q = <<JOB_DONE>> /\ stream.items = <<>>
               /\ cur.n_entries = Len(rawListing(remote, Top.dir))
               /\ hist'.status[Top.dir] = "Completed"]_vars

\* C17 witness: the four lines of / of the plain tree have been taken one by one, JOB_DONE is
\* in the queue and the worker has ended
C17_Witness ==
    /\ pc = "consume" /\ stream.kind = "lines" /\ remote = 1 /\ Top.dir = Root
    /\ cur.n_entries = 4 /\ stream.q = <<JOB_DONE>> /\ stream.worker = "done"

\* the tables of the catalog that hold a row of path p
TablesHolding(cat, p) == {name \in TableNames : RowsOf(TableOf(cat, name), p) # {}}
AllPaths(cat) == KeysOf(cat.files) \cup KeysOf(cat.links) \cup KeysOf(cat.directories)

\* C18: when a run has ended, every path in the catalog of the database file is the key of at
\* most one record of files, links and directories taken together, whatever runs have written
\* into the catalog and whatever kind the path had on the server at each of them.
C18_PathUniqueAcrossTables ==
    pc \in {"done", "crashed", "fatal"} =>
        \A p \in AllPaths(committed) :
            /\ Cardinality(TablesHolding(committed, p)) <= 1
            /\ Cardinality(AllRows(committed, p)) <= 1

\* the step ends a scan as Failed
ScanFails ==
    /\ Len(hist'.ends) = Len(hist.ends) + 1
    /\ hist'.ends[Len(hist'.ends)][2] \in {"Failed_permission", "Failed_timeout"}
\* the columns of a directory row other than path and error_msg
KeptColumns(r) ==
    [num_children |-> r.num_children, modification_date |-> r.modification_date, extra |-> r.extra]

\* C19: a step that ends the scan of D as Failed leaves exactly one directory row of D; it
\* carries an error message, and its num_children, modification_date and extra are those of
\* the row D had when the scan started, all three absent when D had no row; no other row of
\* the catalog is changed by the step.
C19_FailureKeepsPriorFields ==
    [][ScanFails =>
          LET D == Top.dir
              prior == RowsOf(db.directories, D)
              after == RowsOf(db'.directories, D)
          IN  /\ Cardinality(after) = 1
              /\ \A r \in after :
                     /\ r.error_msg # None
                     /\ IF prior = {}
                        THEN KeptColumns(r) = [num_children |-> None, modification_date |-> None,
                                               extra |-> None]
                        ELSE \A q \in prior : KeptColumns(r) = KeptColumns(q)
              /\ db'.files = db.files /\ db'.links = db.links
              /\ db'.directories \ after = db.directories \ prior
    ]_vars

\* C19 witness: the second run's scan of / has failed and the row of / still has the
\* num_children the first run counted, now with an error message
C19_Witness ==
    /\ run = 2 /\ pc = "recurse" /\ Failed(Root) /\ remote = 1
    /\ \E r \in RowsOf(db.directories, Root) :
           r.scan = 2 /\ r.error_msg # None /\ r.num_children = Some(4)

\* the table a node is saved to
TableFor(cat, node) ==
    IF node.cls = "RegularFile" THEN cat.files
    ELSE IF node.cls = "SymbolicLink" THEN cat.links ELSE cat.directories

\* what the database file holds of every directory Completed so far in this run: its row with
\* num_children, and a row, in the table of its kind, of each item of its listing that parses
CompletedAreDurable ==
    \A p \in DOMAIN hist.status :
        HasCompleted(p) =>
            /\ \E r \in RowsOf(committed.directories, p) : r.num_children # None
            /\ \A i \in 1..Len(ListingFor(p)) :
                   LET node == new_node_func(flavour, p, ListingFor(p)[i])
                   IN  IsNode(node) => RowsOf(TableFor(committed, node), node.path) # {}

\* the rows the connection holds that the database file does not hold yet
Pending(name) == TableOf(db, name) \ TableOf(committed, name)

\* what is not in the database file yet is work of the directory entered last: its own row,
\* or a row its scan wrote
OnlyWorkInProgressPending ==
    \A name \in TableNames : \A r \in Pending(name) :
        /\ hist.scans # <<>>
        /\ LET D == hist.scans[Len(hist.scans)]
           IN  (name = "directories" /\ r.path = D) \/ [dir |-> D, path |-> r.path] \in hist.wrote

\* C20: at every point of a run, where the process may be interrupted, the database file
\* holds for every directory Completed so far its row with num_children and the row of each
\* item of its listing that parsed; and the only rows saved so far that it does not hold are
\* those of the directory entered last, the one in progress.
C20_InterruptionLosesOnlyCurrent ==
    /\ CompletedAreDurable
    /\ OnlyWorkInProgressPending

\* C21: the directory row of every directory whose latest scan in this run is Completed has
\* no error message, whatever an earlier scan of it, in this run or in an earlier run into
\* the same catalog, has left in its row.  (Stated for the trees in which no directory lists
\* itself or its parent, so that no directory is scanned twice in one run.)
C21_CompletedHasNoError ==
    (SelfFree(remote) /\ (run > 1 => SelfFree(hist.prev.remote))) =>
        \A p \in DOMAIN hist.status :
            hist.status[p] = "Completed" => ErrorRows(db, p) = {}

====
